---- MODULE Spec2Model ----
(***************************************************************************)
(* A model of maprobe's probe scheduler and metric pipeline:               *)
(*   Run (orchestrator), runProbes and its host-tasks, runAggregates,      *)
(*   the reducers, postHostMetricWorker / postServiceMetricWorker, the     *)
(*   dump workers, and LoadConfig (initialize, validate).                  *)
(* Goroutines are processes with a program counter; a channel is a         *)
(* sequence with a capacity and a closed flag; a sync.WaitGroup is a       *)
(* counter.  Floating-point values are modelled by exact rationals         *)
(* [num, den]; unix times are integers (seconds).                          *)
(***************************************************************************)
EXTENDS Integers, Sequences, FiniteSets, TLC

(***************************************************************************)
(* Tunables of the program (package-level vars), scaled down.              *)
(***************************************************************************)
MaxConcurrency == 2
PostMetricBufferLength == 2
metricTimeMargin == -180

\* the factor in make(chan HostMetric, PostMetricBufferLength*10), scaled down
ChanFactor == 2

\* make(chan HostMetric, PostMetricBufferLength*10)
ChanCap == PostMetricBufferLength * ChanFactor

(***************************************************************************)
(* Bounds of the model.                                                    *)
(***************************************************************************)
\* hosts a discovery call (FindHosts) returns at most
MaxHosts == 2
\* the same, in the runs in which the config file changes
ReloadHosts == 1
\* times the content of the config location changes during a run
MaxEdits == 1
\* metrics one probe.Run returns at most
MaxProbeMetrics == 1
\* a POST may fail only while the shipper's buffer is shorter than this
MaxBacklog == 4
\* metrics the producers of the shipper specification send
MaxShipMetrics == 3

(***************************************************************************)
(* Helpers.                                                                *)
(***************************************************************************)
Range(s) == {s[i] : i \in DOMAIN s}

RECURSIVE Flatten(_)
Flatten(ss) == IF ss = <<>> THEN <<>> ELSE Head(ss) \o Flatten(Tail(ss))

Perms(S) == {p \in [1..Cardinality(S) -> S] : \A x \in S : \E i \in DOMAIN p : p[i] = x}

Abs(n) == IF n < 0 THEN -n ELSE n

RECURSIVE Gcd(_, _)
Gcd(a, b) == IF b = 0 THEN a ELSE Gcd(b, a % b)

\* a float64 holding the integer n
Float(n) == [num |-> n, den |-> 1]

\* float64 division a / b (b > 0), as a rational in lowest terms
FDiv(a, b) ==
    LET g == Gcd(Abs(a), b)
    IN  IF g = 0 THEN [num |-> 0, den |-> 1] ELSE [num |-> a \div g, den |-> b \div g]

(***************************************************************************)
(* Reducers (sum, min, max, count, avg).  A named result `value` starts    *)
(* at the zero value of float64.                                           *)
(***************************************************************************)
RECURSIVE FoldSum(_, _)
FoldSum(values, value) ==
    IF values = <<>> THEN value ELSE FoldSum(Tail(values), value + Head(values))

sum(values) == FoldSum(values, 0)

MathMin(a, b) == IF a < b THEN a ELSE b

MathMax(a, b) == IF a > b THEN a ELSE b

RECURSIVE FoldMin(_, _)
FoldMin(values, value) ==
    IF values = <<>> THEN value ELSE FoldMin(Tail(values), MathMin(Head(values), value))

min(values) == FoldMin(values, 0)

RECURSIVE FoldMax(_, _)
FoldMax(values, value) ==
    IF values = <<>> THEN value ELSE FoldMax(Tail(values), MathMax(Head(values), value))

max(values) == FoldMax(values, 0)

count(values) == Len(values)

avg(values) == FDiv(sum(values), count(values))

(***************************************************************************)
(* Configuration: the file at the config location, and LoadConfig.         *)
(***************************************************************************)
\* strings.ToLower on the func names that occur in the files below
ToLower(s) ==
    CASE s = "SUM" -> "sum"
      [] s = "Min" -> "min"
      [] s = "MAX" -> "max"
      [] s = "Average" -> "average"
      [] OTHER -> s

\* A probe definition of a file: `probes` lists its populated probe configs.
PdFile(role, roles, probes) ==
    [service |-> "prod", role |-> role, roles |-> roles, statuses |-> <<>>, probes |-> probes]

OcFile(func, name) == [func |-> func, name |-> name]

McFile(name, outputs) == [name |-> name, outputs |-> outputs]

AgFile(role, roles, metrics) ==
    [service |-> "prod", role |-> role, roles |-> roles, statuses |-> <<>>, metrics |-> metrics]

\* A YAML document. "absent" marks a key the document does not have.
Yaml(apikey, probes, ppm, aggregates, pam, probeOnly) ==
    [kind |-> "yaml", apikey |-> apikey, probes |-> probes, post_probed_metrics |-> ppm,
     aggregates |-> aggregates, post_aggregated_metrics |-> pam, probe_only |-> probeOnly]

\* Bytes that are not YAML for a Config.
Garbage == [kind |-> "garbage"]

FileProbes ==
    Yaml("K", <<PdFile("EC2", <<>>, <<"ping">>), PdFile("", <<"NLB">>, <<"ping", "tcp">>)>>,
         "absent", <<>>, "absent", "absent")

FileBoth ==
    Yaml("K", <<PdFile("EC2", <<>>, <<"ping">>)>>, "false",
         <<AgFile("web", <<>>, <<McFile("m", <<OcFile("sum", "m_sum"), OcFile("Min", "m_min")>>)>>)>>,
         "absent", "absent")

FileAggDump ==
    Yaml("K", <<>>, "absent",
         <<AgFile("web", <<>>, <<McFile("m", <<OcFile("median", "m_med")>>)>>)>>,
         "false", "absent")

FileNoKey ==
    Yaml("", <<PdFile("EC2", <<>>, <<"ping">>)>>, "absent", <<>>, "absent", "absent")

\* the contents the config location can hold while the orchestrator runs
MainFiles == {FileProbes, FileBoth, FileAggDump, FileNoKey, Garbage}

\* The environments of the orchestrator: the contents the config location can
\* hold, and the most hosts a discovery call returns.
\* With `track` every HostMetric sent carries a sequence number (at most
\* MaxShipMetrics are made); without, the metrics are all alike.
\* With `errs` the errors of an iteration are kept in `failed`.
Worlds ==
    {[files |-> {FileProbes}, hosts |-> MaxHosts, track |-> FALSE, errs |-> FALSE],
     [files |-> MainFiles, hosts |-> ReloadHosts, track |-> FALSE, errs |-> FALSE]}

FileSolo ==
    Yaml("K", <<PdFile("EC2", <<>>, <<"ping", "http">>)>>, "absent", <<>>, "absent", "absent")

\* the environments of the shipper's specification
ShipWorlds == {[files |-> {FileSolo}, hosts |-> ReloadHosts, track |-> TRUE, errs |-> FALSE]}

FileAggTwo ==
    Yaml("K", <<>>, "absent",
         <<AgFile("web", <<>>,
              <<McFile("m", <<OcFile("sum", "m_sum"), OcFile("Min", "m_min"),
                              OcFile("MAX", "m_max"), OcFile("avg", "m_avg")>>),
                McFile("n", <<OcFile("count", "n_count"), OcFile("median", "n_med")>>)>>)>>,
         "false", "absent")

FileAggPost ==
    Yaml("K", <<>>, "absent",
         <<AgFile("", <<"db">>, <<McFile("m", <<OcFile("Average", "m_avg"), OcFile("max", "m_max")>>)>>),
           AgFile("", <<"web">>, <<McFile("m", <<OcFile("min", "m_min")>>)>>)>>,
         "absent", "absent")

\* the environments of the aggregate runner's specification
AggWorlds == {[files |-> {FileAggTwo, FileAggPost}, hosts |-> MaxHosts, track |-> FALSE, errs |-> FALSE]}

YamlBool(s, default) == IF s = "absent" THEN default ELSE s = "true"

\* yaml.Unmarshal(b, c) over the defaults LoadConfig put in c
Unmarshal(f, env) ==
    [APIKey |-> IF f.apikey = "" THEN env ELSE f.apikey,
     Probes |-> [i \in DOMAIN f.probes |->
                   [Service |-> f.probes[i].service, Role |-> f.probes[i].role,
                    Roles |-> f.probes[i].roles, Statuses |-> f.probes[i].statuses,
                    Probes |-> f.probes[i].probes]],
     PostProbedMetrics |-> YamlBool(f.post_probed_metrics, TRUE),
     Aggregates |-> [i \in DOMAIN f.aggregates |->
                   [Service |-> f.aggregates[i].service, Role |-> f.aggregates[i].role,
                    Roles |-> f.aggregates[i].roles, Statuses |-> f.aggregates[i].statuses,
                    Metrics |-> [k \in DOMAIN f.aggregates[i].metrics |->
                       [Name |-> f.aggregates[i].metrics[k].name,
                        Outputs |-> [o \in DOMAIN f.aggregates[i].metrics[k].outputs |->
                           [Func |-> f.aggregates[i].metrics[k].outputs[o].func,
                            Name |-> f.aggregates[i].metrics[k].outputs[o].name,
                            calc |-> "nil"]]]]]],
     PostAggregatedMetrics |-> YamlBool(f.post_aggregated_metrics, TRUE),
     ProbeOnly |-> IF f.probe_only = "absent" THEN "nil" ELSE f.probe_only]

\* an initialize that appends the role even when it is empty
AppendRoleAlways(d) == [d EXCEPT !.Roles = Append(d.Roles, d.Role)]

\* role -> roles
AppendRole(d) == IF d.Role # "" THEN [d EXCEPT !.Roles = Append(d.Roles, d.Role)] ELSE d

initialize(c) ==
    [c EXCEPT !.Probes = [i \in DOMAIN c.Probes |-> AppendRole(c.Probes[i])],
              !.Aggregates = [i \in DOMAIN c.Aggregates |-> AppendRole(c.Aggregates[i])]]

\* the reducer validate binds to an output ("nil": none)
BindCalc(oc) ==
    LET f == ToLower(oc.Func)
    IN  [oc EXCEPT !.calc = CASE f = "sum" -> "sum"
                              [] f = "min" -> "min"
                              [] f = "max" -> "max"
                              [] f \in {"avg", "average"} -> "avg"
                              [] f = "count" -> "count"
                              [] OTHER -> "nil"]

BindMetric(mc) == [mc EXCEPT !.Outputs = [o \in DOMAIN mc.Outputs |-> BindCalc(mc.Outputs[o])]]

BindAggregate(ag) == [ag EXCEPT !.Metrics = [k \in DOMAIN ag.Metrics |-> BindMetric(ag.Metrics[k])]]

\* a validate that does not look at ProbeOnly
validateKeep(c) ==
    IF c.APIKey = ""
    THEN [err |-> "no API Key", conf |-> c]
    ELSE [err |-> "nil",
          conf |-> [c EXCEPT
             !.Aggregates = [i \in DOMAIN c.Aggregates |-> BindAggregate(c.Aggregates[i])]]]

\* validate: the error it returns and the config it leaves
validate(c) ==
    IF c.APIKey = ""
    THEN [err |-> "no API Key", conf |-> c]
    ELSE [err |-> "nil",
          conf |-> [c EXCEPT
             !.PostProbedMetrics = IF c.ProbeOnly # "nil" THEN ~(c.ProbeOnly = "true") ELSE @,
             !.Aggregates = [i \in DOMAIN c.Aggregates |-> BindAggregate(c.Aggregates[i])]]]

NoConf == [APIKey |-> "", Probes |-> <<>>, PostProbedMetrics |-> TRUE, Aggregates |-> <<>>,
           PostAggregatedMetrics |-> TRUE, ProbeOnly |-> "nil"]

\* LoadConfig: fetchOk is whether fetch() succeeded, f the bytes it returned,
\* env the value of MACKEREL_APIKEY
LoadConfig(f, fetchOk, env) ==
    IF ~fetchOk THEN [err |-> "load config failed", conf |-> NoConf]
    ELSE IF f.kind # "yaml" THEN [err |-> "yaml", conf |-> NoConf]
    ELSE validate(initialize(Unmarshal(f, env)))

(***************************************************************************)
(* reflect.DeepEqual(conf, newConf): field by field; two func values are   *)
(* deeply equal only if both are nil.                                      *)
(***************************************************************************)
FuncEqual(f, g) == f = "nil" /\ g = "nil"

OutputEqual(a, b) == a.Func = b.Func /\ a.Name = b.Name /\ FuncEqual(a.calc, b.calc)

MetricEqual(a, b) ==
    /\ a.Name = b.Name
    /\ Len(a.Outputs) = Len(b.Outputs)
    /\ \A o \in DOMAIN a.Outputs : OutputEqual(a.Outputs[o], b.Outputs[o])

AggregateEqual(a, b) ==
    /\ a.Service = b.Service /\ a.Role = b.Role /\ a.Roles = b.Roles /\ a.Statuses = b.Statuses
    /\ Len(a.Metrics) = Len(b.Metrics)
    /\ \A k \in DOMAIN a.Metrics : MetricEqual(a.Metrics[k], b.Metrics[k])

DeepEqual(a, b) ==
    /\ a.APIKey = b.APIKey
    /\ a.Probes = b.Probes
    /\ a.PostProbedMetrics = b.PostProbedMetrics
    /\ Len(a.Aggregates) = Len(b.Aggregates)
    /\ \A i \in DOMAIN a.Aggregates : AggregateEqual(a.Aggregates[i], b.Aggregates[i])
    /\ a.PostAggregatedMetrics = b.PostAggregatedMetrics
    /\ a.ProbeOnly = b.ProbeOnly

(***************************************************************************)
(* runAggregates, from the latest values to the ServiceMetrics it sends.   *)
(* latest maps a host id to a map from metric name to a sample             *)
(*   [st, time, value], st = "absent" (no entry), "nil" (a nil entry),     *)
(*   "nonfloat" (the value is not a float64) or "float".                   *)
(* order is the order in which `range latest` visits the host ids.         *)
(***************************************************************************)
\* a gate that also lets through a sample exactly at now + metricTimeMargin
FreshOrEqual(t, now) == t >= now + metricTimeMargin

\* ts.After(now.Add(metricTimeMargin)), ts = time.Unix(t, 0)
Fresh(t, now) == t > now + metricTimeMargin

\* whether the scan appends the sample to values
Accepted(s, now) == s.st = "float" /\ Fresh(s.time, now)

RECURSIVE Scan(_, _, _, _)
Scan(name, latest, order, now) ==
    IF order = <<>> THEN <<>>
    ELSE LET s == latest[Head(order)][name]
             rest == Scan(name, latest, Tail(order), now)
         IN  IF Accepted(s, now) THEN <<s>> \o rest ELSE rest

\* a timestamp that follows the sample scanned last instead of the newest one
FoldTimestampLast(samples, timestamp) ==
    IF samples = <<>> THEN timestamp ELSE samples[Len(samples)].time

\* timestamp = math.Max(float64(_v.Time), timestamp) over the accepted samples
RECURSIVE FoldTimestamp(_, _)
FoldTimestamp(samples, timestamp) ==
    IF samples = <<>> THEN timestamp
    ELSE FoldTimestamp(Tail(samples), MathMax(Head(samples).time, timestamp))

\* the switch on strings.ToLower(output.Func); `value` keeps its zero value
\* when no case matches
Reduce(func, values) ==
    LET f == ToLower(func)
    IN  CASE f = "sum" -> Float(sum(values))
          [] f = "min" -> Float(min(values))
          [] f = "max" -> Float(max(values))
          [] f \in {"avg", "average"} -> avg(values)
          [] f = "count" -> Float(count(values))
          [] OTHER -> Float(0)

\* a runner that does not skip a MetricConfig whose scan accepted no sample
EmitMetricAlways(ag, mc, latest, order, now) ==
    LET samples == Scan(mc.Name, latest, order, now)
        values == [i \in DOMAIN samples |-> samples[i].value]
        timestamp == FoldTimestamp(samples, 0)
    IN  [o \in DOMAIN mc.Outputs |->
            [Service |-> ag.Service, Name |-> mc.Outputs[o].Name,
             Value |-> Reduce(mc.Outputs[o].Func, values), Timestamp |-> timestamp]]

\* the ServiceMetrics one MetricConfig makes the runner send, in order
EmitMetric(ag, mc, latest, order, now) ==
    LET samples == Scan(mc.Name, latest, order, now)
        values == [i \in DOMAIN samples |-> samples[i].value]
        timestamp == FoldTimestamp(samples, 0)
    IN  IF Len(values) = 0 THEN <<>>
        ELSE [o \in DOMAIN mc.Outputs |->
                [Service |-> ag.Service, Name |-> mc.Outputs[o].Name,
                 Value |-> Reduce(mc.Outputs[o].Func, values), Timestamp |-> timestamp]]

\* per MetricConfig, the samples whose values the run hands to the reducers
Handed(ag, latest, order, now) ==
    [k \in DOMAIN ag.Metrics |-> Scan(ag.Metrics[k].Name, latest, order, now)]

\* the ServiceMetrics one run of runAggregates sends, in order
EmitAll(ag, latest, order, now) ==
    Flatten([k \in DOMAIN ag.Metrics |-> EmitMetric(ag, ag.Metrics[k], latest, order, now)])

(***************************************************************************)
(* The state.                                                              *)
(***************************************************************************)
\* definitions (probes or aggregates) a config lists at most
MaxDefs == 2

Defs == 1..MaxDefs
Hosts == 1..MaxHosts

VARIABLES
    once,        \* Run's parameter
    env,         \* MACKEREL_APIKEY
    world,       \* the environment: [files, hosts]
    file,        \* the content of the config location at the last fetch
    edits,       \* times that content has changed
    nextId,      \* the sequence number of the next HostMetric sent (0: not tracked)
    cancelled,   \* ctx.Done() is closed
    conf,        \* Run's conf
    confBytes,   \* the bytes conf was loaded from
    lastReload,  \* the reload attempt Run has just made: [same, swapped, failed]
    runPc,       \* where Run is
    runWg,       \* Run's wg2
    hch, hchClosed, sch, schClosed,
    panicked,    \* a send on a closed channel happened
    hStarted,    \* goroutines started to consume hch
    sStarted,    \* goroutines started to consume sch
    hworker,     \* "none", "post" (postHostMetricWorker) or "dump"
    hwPc,        \* where the consumer of hch is
    mvs,         \* postHostMetricWorker's buffer
    hwPosted,    \* the metrics of the POSTs that succeeded
    sworker, swPc,
    sem,         \* len(sem)
    prPc, prHosts, prNext, prWg,   \* runProbes, per probe definition
    htPc, htProbes, htPending,     \* host-tasks, per probe definition and host
    unlocking,   \* host-tasks past wg2.Done() and before unlock()
    agPc,        \* runAggregates, per aggregate definition
    agIn,        \* its inputs: hosts found, latest values, scan order, now
    agList,      \* the ServiceMetrics its run sends
    agIdx,       \* how many of them it has sent
    failed       \* the units of work that returned an error in this iteration

vars == <<once, env, world, file, edits, nextId, cancelled, conf, confBytes, lastReload, runPc, runWg,
          hch, hchClosed, sch, schClosed, panicked, hStarted, sStarted,
          hworker, hwPc, mvs, hwPosted, sworker, swPc, sem,
          prPc, prHosts, prNext, prWg, htPc, htProbes, htPending, unlocking,
          agPc, agIn, agList, agIdx, failed>>

runVars == <<conf, confBytes, lastReload, runPc>>
chanVars == <<hch, hchClosed, sch, schClosed, panicked>>
hwVars == <<hworker, hwPc, mvs, hwPosted, hStarted>>
swVars == <<sworker, swPc, sStarted>>
prVars == <<prPc, prHosts, prNext, prWg>>
htVars == <<htPc, htProbes, htPending, unlocking, sem>>
agVars == <<agPc, agIn, agList, agIdx>>
envVars == <<once, env, world, cancelled>>
idVars == <<nextId>>
errVars == <<failed>>

\* `failed` after unit u returned an error (err) or did not
Noted(u, err) == IF world.errs /\ err THEN failed \cup {u} ELSE failed
fileVars == <<file, edits>>

NoInput == [n |-> 0]

\* no reload attempt since the current iteration began
NoReload == [same |-> FALSE, swapped |-> FALSE, failed |-> FALSE]

\* the state in which Run is called
Idle ==
    /\ cancelled = FALSE
    /\ file = Garbage /\ edits = 0
    /\ conf = NoConf /\ confBytes = Garbage
    /\ lastReload = NoReload
    /\ runPc = "start" /\ runWg = 0
    /\ hch = <<>> /\ hchClosed = FALSE /\ sch = <<>> /\ schClosed = FALSE
    /\ panicked = FALSE /\ hStarted = 0 /\ sStarted = 0
    /\ hworker = "none" /\ hwPc = "none" /\ mvs = <<>>
    /\ hwPosted = {}
    /\ sworker = "none" /\ swPc = "none"
    /\ sem = 0
    /\ prPc = [i \in Defs |-> "none"] /\ prHosts = [i \in Defs |-> 0]
    /\ prNext = [i \in Defs |-> 0] /\ prWg = [i \in Defs |-> 0]
    /\ htPc = [i \in Defs |-> [h \in Hosts |-> "none"]]
    /\ htProbes = [i \in Defs |-> [h \in Hosts |-> 0]]
    /\ htPending = [i \in Defs |-> [h \in Hosts |-> 0]]
    /\ unlocking = 0
    /\ agPc = [j \in Defs |-> "none"] /\ agIn = [j \in Defs |-> NoInput]
    /\ agList = [j \in Defs |-> <<>>] /\ agIdx = [j \in Defs |-> 0]
    /\ failed = {}

\* Run is called in environment w
Start(w) ==
    /\ env = ""
    /\ world = w
    /\ nextId = IF w.track THEN 1 ELSE 0
    /\ Idle

Init ==
    /\ once \in BOOLEAN
    /\ \E w \in Worlds : Start(w)

(***************************************************************************)
(* Run.                                                                    *)
(***************************************************************************)
\* which consumer Run starts for a channel
WorkerMode(n, post) == IF n = 0 THEN "none" ELSE IF post THEN "post" ELSE "dump"

\* LoadConfig, the channels, the workers
RunStart ==
    /\ runPc = "start"
    /\ \E f \in world.files, fetchOk \in BOOLEAN :
         LET r == LoadConfig(f, fetchOk, env)
             hm == WorkerMode(Len(r.conf.Probes), r.conf.PostProbedMetrics)
             sm == WorkerMode(Len(r.conf.Aggregates), r.conf.PostAggregatedMetrics)
         IN  /\ file' = f
             /\ IF r.err # "nil"
                THEN /\ runPc' = "failed"
                     /\ UNCHANGED <<conf, confBytes, hwVars, swVars>>
                ELSE /\ runPc' = "loop"
                     /\ conf' = r.conf /\ confBytes' = f
                     /\ hworker' = hm
                     /\ hwPc' = IF hm = "none" THEN "none" ELSE "loop"
                     /\ hStarted' = IF hm = "none" THEN hStarted ELSE hStarted + 1
                     /\ sworker' = sm
                     /\ swPc' = IF sm = "none" THEN "none" ELSE "loop"
                     /\ sStarted' = IF sm = "none" THEN sStarted ELSE sStarted + 1
                     /\ UNCHANGED <<mvs, hwPosted>>
    /\ UNCHANGED <<edits, lastReload, runWg, chanVars, prVars, htVars, agVars, envVars, idVars, errVars>>

\* one goroutine per probe definition and per aggregate definition
RunSpawn ==
    /\ runPc = "loop"
    /\ runPc' = "wait"
    /\ runWg' = Len(conf.Probes) + Len(conf.Aggregates)
    /\ lastReload' = NoReload
    /\ failed' = {}
    /\ prPc' = [i \in Defs |-> IF i <= Len(conf.Probes) THEN "find" ELSE "none"]
    /\ agPc' = [j \in Defs |-> IF j <= Len(conf.Aggregates) THEN "find" ELSE "none"]
    /\ UNCHANGED <<conf, confBytes, chanVars, hwVars, swVars,
                   prHosts, prNext, prWg, htVars, agIn, agList, agIdx, envVars, fileVars, idVars>>

\* Run returns: the deferred close(sch) and close(hch)
RunReturn ==
    /\ runPc' = "returned"
    /\ hchClosed' = TRUE
    /\ schClosed' = TRUE

\* a Run that goes on without wg2.Wait()
RunJoinedEarly ==
    /\ runPc = "wait"
    /\ IF once THEN RunReturn ELSE runPc' = "select" /\ UNCHANGED <<hchClosed, schClosed>>
    /\ UNCHANGED <<conf, confBytes, lastReload, runWg, hch, sch, panicked, hwVars, swVars,
                   prVars, htVars, agVars, envVars, fileVars, idVars, errVars>>

\* wg2.Wait() returns; in once mode Run returns
RunJoined ==
    /\ runPc = "wait"
    /\ runWg = 0
    /\ IF once THEN RunReturn ELSE runPc' = "select" /\ UNCHANGED <<hchClosed, schClosed>>
    /\ UNCHANGED <<conf, confBytes, lastReload, runWg, hch, sch, panicked, hwVars, swVars,
                   prVars, htVars, agVars, envVars, fileVars, idVars, errVars>>

\* case <-ctx.Done()
RunCancelled ==
    /\ runPc = "select"
    /\ cancelled
    /\ RunReturn
    /\ UNCHANGED <<conf, confBytes, lastReload, runWg, hch, sch, panicked, hwVars, swVars,
                   prVars, htVars, agVars, envVars, fileVars, idVars, errVars>>

\* a reload that starts the workers the new config asks for
RunTickRestarts ==
    /\ runPc = "select"
    /\ \E f \in world.files, fetchOk \in BOOLEAN :
         LET r == LoadConfig(f, fetchOk, env)
             swap == r.err = "nil" /\ ~DeepEqual(conf, r.conf)
             nc == IF swap THEN r.conf ELSE conf
             hm == WorkerMode(Len(nc.Probes), nc.PostProbedMetrics)
             sm == WorkerMode(Len(nc.Aggregates), nc.PostAggregatedMetrics)
         IN  /\ f = file \/ edits < MaxEdits
             /\ file' = f
             /\ edits' = IF f = file THEN edits ELSE edits + 1
             /\ conf' = nc
             /\ confBytes' = IF swap THEN f ELSE confBytes
             /\ lastReload' = [same |-> fetchOk /\ f = confBytes, swapped |-> swap,
                               failed |-> r.err # "nil"]
             /\ hworker' = hm /\ sworker' = sm
             /\ hwPc' = IF hm = hworker THEN hwPc ELSE IF hm = "none" THEN "none" ELSE "loop"
             /\ swPc' = IF sm = sworker THEN swPc ELSE IF sm = "none" THEN "none" ELSE "loop"
             /\ hStarted' = IF hm \in {hworker, "none"} THEN hStarted ELSE hStarted + 1
             /\ sStarted' = IF sm \in {sworker, "none"} THEN sStarted ELSE sStarted + 1
    /\ runPc' = "loop"
    /\ UNCHANGED <<mvs, hwPosted, runWg, chanVars, prVars, htVars, agVars, envVars, idVars, errVars>>

\* a reload that takes whatever LoadConfig returned, error or not
RunTickTakesAll ==
    /\ runPc = "select"
    /\ \E f \in world.files, fetchOk \in BOOLEAN :
         LET r == LoadConfig(f, fetchOk, env)
             swap == ~DeepEqual(conf, r.conf)
         IN  /\ f = file \/ edits < MaxEdits
             /\ file' = f
             /\ edits' = IF f = file THEN edits ELSE edits + 1
             /\ conf' = IF swap THEN r.conf ELSE conf
             /\ confBytes' = IF swap THEN f ELSE confBytes
             /\ lastReload' = [same |-> fetchOk /\ f = confBytes, swapped |-> swap,
                               failed |-> r.err # "nil"]
    /\ runPc' = "loop"
    /\ UNCHANGED <<runWg, chanVars, hwVars, swVars, prVars, htVars, agVars, envVars, idVars, errVars>>

\* case <-ticker.C, then the reload
RunTick ==
    /\ runPc = "select"
    /\ \E f \in world.files, fetchOk \in BOOLEAN :
         LET r == LoadConfig(f, fetchOk, env)
             swap == r.err = "nil" /\ ~DeepEqual(conf, r.conf)
         IN  /\ f = file \/ edits < MaxEdits
             /\ file' = f
             /\ edits' = IF f = file THEN edits ELSE edits + 1
             /\ conf' = IF swap THEN r.conf ELSE conf
             /\ confBytes' = IF swap THEN f ELSE confBytes
             /\ lastReload' = [same |-> fetchOk /\ f = confBytes, swapped |-> swap,
                               failed |-> r.err # "nil"]
    /\ runPc' = "loop"
    /\ UNCHANGED <<runWg, chanVars, hwVars, swVars, prVars, htVars, agVars, envVars, idVars, errVars>>

\* the cancellation signal
Cancel ==
    /\ ~cancelled
    /\ cancelled' = TRUE
    /\ UNCHANGED <<once, env, world, fileVars, idVars, errVars, runVars, runWg, chanVars, hwVars, swVars,
                   prVars, htVars, agVars>>

(***************************************************************************)
(* The channels.                                                           *)
(***************************************************************************)
\* a send can proceed: there is room, or the channel is closed (and it panics)
CanSend(ch, closed) == closed \/ Len(ch) < ChanCap

\* the HostMetric a host-task sends next: its sequence number where the
\* environment tracks the metrics, and 0 (the content plays no part) elsewhere
ProbeMetric == nextId

RECURSIVE SumTo(_, _)
SumTo(f, n) == IF n = 0 THEN 0 ELSE f[n] + SumTo(f, n - 1)

\* metrics the probes have returned and the host-tasks have not sent yet
TotalPending == SumTo([i \in Defs |-> SumTo(htPending[i], MaxHosts)], MaxDefs)

\* the numbers of metrics a probe.Run may return now
ProbeYields ==
    IF world.track
    THEN {r \in 0..MaxProbeMetrics : nextId + TotalPending + r <= MaxShipMetrics + 1}
    ELSE 0..MaxProbeMetrics

(***************************************************************************)
(* runProbes, per probe definition i.                                      *)
(***************************************************************************)
\* client.FindHosts: an error, or n hosts
PrFind(i) ==
    /\ prPc[i] = "find"
    /\ \E err \in BOOLEAN, n \in 0..world.hosts :
         /\ failed' = Noted(<<"probes", i, 0>>, err)
         /\ IF err \/ n = 0
            THEN /\ prPc' = [prPc EXCEPT ![i] = "none"]
                 /\ runWg' = runWg - 1
                 /\ UNCHANGED <<prHosts, prNext>>
            ELSE /\ ~err
                 /\ prPc' = [prPc EXCEPT ![i] = "spawn"]
                 /\ prHosts' = [prHosts EXCEPT ![i] = n]
                 /\ prNext' = [prNext EXCEPT ![i] = 0]
                 /\ UNCHANGED runWg
    /\ UNCHANGED <<prWg, runVars, chanVars, hwVars, swVars, htVars, agVars, envVars, fileVars, idVars>>

\* time.Sleep(spawnInterval); wg2.Add(1); go func(host)
PrSpawn(i) ==
    /\ prPc[i] = "spawn"
    /\ LET h == prNext[i] + 1
       IN  /\ prNext' = [prNext EXCEPT ![i] = h]
           /\ prWg' = [prWg EXCEPT ![i] = @ + 1]
           /\ htPc' = [htPc EXCEPT ![i][h] = "lock"]
           /\ prPc' = [prPc EXCEPT ![i] = IF h = prHosts[i] THEN "wait" ELSE "spawn"]
    /\ UNCHANGED <<prHosts, htProbes, htPending, unlocking, sem, runVars, runWg, chanVars,
                   hwVars, swVars, agVars, envVars, fileVars, idVars, errVars>>

\* a runProbes that returns without wg2.Wait()
PrJoinedEarly(i) ==
    /\ prPc[i] = "wait"
    /\ prPc' = [prPc EXCEPT ![i] = "none"]
    /\ prHosts' = [prHosts EXCEPT ![i] = 0]
    /\ prNext' = [prNext EXCEPT ![i] = 0]
    /\ runWg' = runWg - 1
    /\ UNCHANGED <<prWg, runVars, chanVars, hwVars, swVars, htVars, agVars, envVars, fileVars, idVars, errVars>>

\* wg2.Wait() returns; the deferred wg.Done()
PrJoined(i) ==
    /\ prPc[i] = "wait"
    /\ prWg[i] = 0
    /\ prPc' = [prPc EXCEPT ![i] = "none"]
    /\ prHosts' = [prHosts EXCEPT ![i] = 0]
    /\ prNext' = [prNext EXCEPT ![i] = 0]
    /\ runWg' = runWg - 1
    /\ UNCHANGED <<prWg, runVars, chanVars, hwVars, swVars, htVars, agVars, envVars, fileVars, idVars, errVars>>

(***************************************************************************)
(* The host-task of host h of probe definition i.  Its deferred calls run  *)
(* in reverse order: wg2.Done() first, then unlock().  wg2.Done() is taken *)
(* together with the task's last step before it.                           *)
(***************************************************************************)
\* a lock() that never blocks
CanLockAlways == TRUE

\* lock(): sem <- struct{}{} blocks while the semaphore is full
CanLock == sem < MaxConcurrency

\* the host-task goes on with pc after a step that left `left` probes to run;
\* with none left the loop ends and the deferred wg2.Done() runs
HtGoOn(i, h, pending, left) ==
    /\ htPending' = [htPending EXCEPT ![i][h] = pending]
    /\ htProbes' = [htProbes EXCEPT ![i][h] = left]
    /\ IF pending > 0
       THEN htPc' = [htPc EXCEPT ![i][h] = "send"] /\ UNCHANGED <<prWg, unlocking>>
       ELSE IF left > 0
       THEN htPc' = [htPc EXCEPT ![i][h] = "run"] /\ UNCHANGED <<prWg, unlocking>>
       ELSE /\ htPc' = [htPc EXCEPT ![i][h] = "none"]
            /\ prWg' = [prWg EXCEPT ![i] = @ - 1]
            /\ unlocking' = unlocking + 1

\* lock(), then pd.GenerateProbes: one probe per populated config that renders
HtLock(i, h) ==
    /\ htPc[i][h] = "lock"
    /\ CanLock
    /\ sem' = sem + 1
    /\ \E k \in 0..Len(conf.Probes[i].Probes) : HtGoOn(i, h, 0, k)
    /\ UNCHANGED <<prPc, prHosts, prNext, runVars, runWg, chanVars, hwVars, swVars,
                   agVars, envVars, fileVars, idVars, errVars>>

\* a host-task that drops the metrics of a failed probe and ends its loop
HtRunStops(i, h) ==
    /\ htPc[i][h] = "run"
    /\ \E r \in ProbeYields, err \in BOOLEAN :
         /\ IF err THEN HtGoOn(i, h, 0, 0) ELSE HtGoOn(i, h, r, htProbes[i][h] - 1)
         /\ failed' = Noted(<<"probe", i, h>>, err)
    /\ UNCHANGED <<sem, prPc, prHosts, prNext, runVars, runWg, chanVars, hwVars, swVars,
                   agVars, envVars, fileVars, idVars>>

\* probe.Run(ctx): r metrics, with or without an error
HtRun(i, h) ==
    /\ htPc[i][h] = "run"
    /\ \E r \in ProbeYields, err \in BOOLEAN :
         /\ HtGoOn(i, h, r, htProbes[i][h] - 1)
         /\ failed' = Noted(<<"probe", i, h>>, err)
    /\ UNCHANGED <<sem, prPc, prHosts, prNext, runVars, runWg, chanVars, hwVars, swVars,
                   agVars, envVars, fileVars, idVars>>

\* ch <- m
HtSend(i, h) ==
    /\ htPc[i][h] = "send"
    /\ CanSend(hch, hchClosed)
    /\ IF hchClosed
       THEN panicked' = TRUE /\ UNCHANGED hch
       ELSE hch' = Append(hch, ProbeMetric) /\ UNCHANGED panicked
    /\ nextId' = IF world.track THEN nextId + 1 ELSE nextId
    /\ HtGoOn(i, h, htPending[i][h] - 1, htProbes[i][h])
    /\ UNCHANGED <<sem, hchClosed, sch, schClosed, prPc, prHosts, prNext, runVars, runWg,
                   hwVars, swVars, agVars, envVars, fileVars, errVars>>

\* the deferred unlock() of a host-task past its wg2.Done(): <-sem
HtUnlock ==
    /\ unlocking > 0
    /\ unlocking' = unlocking - 1
    /\ sem' = sem - 1
    /\ UNCHANGED <<htPc, htProbes, htPending, runVars, runWg, chanVars, hwVars, swVars,
                   prVars, agVars, envVars, fileVars, idVars, errVars>>

(***************************************************************************)
(* postHostMetricWorker: one action per iteration of its for-select loop.  *)
(***************************************************************************)
\* the results client.PostHostMetricValues can have (TRUE: no error)
PostOutcomes(buf) == IF Len(buf) < MaxBacklog THEN BOOLEAN ELSE {TRUE}

\* what a failed POST leaves in the buffer
AfterFailedPost(buf) == buf

\* whether the loop goes on after an iteration that ended with `run`
LoopsOn(run) == run

\* the part of an iteration after the select, with buffer buf
HwFlush(buf, run) ==
    /\ hwPc' = IF LoopsOn(run) THEN "loop" ELSE "exited"
    /\ IF Len(buf) = 0
       THEN mvs' = buf /\ UNCHANGED hwPosted
       ELSE \E ok \in PostOutcomes(buf) :
              IF ok
              THEN mvs' = <<>> /\ hwPosted' = hwPosted \cup Range(buf)
              ELSE mvs' = AfterFailedPost(buf) /\ UNCHANGED hwPosted

\* case m, cont := <-ch
HwRecv ==
    /\ hworker = "post" /\ hwPc = "loop"
    /\ hch # <<>> \/ hchClosed
    /\ IF hch # <<>>
       THEN /\ hch' = Tail(hch)
            /\ LET buf == Append(mvs, Head(hch))
               IN  IF Len(buf) < PostMetricBufferLength
                   THEN mvs' = buf /\ UNCHANGED <<hwPc, hwPosted>>
                   ELSE HwFlush(buf, TRUE)
       ELSE /\ HwFlush(mvs, FALSE)
            /\ UNCHANGED hch
    /\ UNCHANGED <<hworker, hStarted, hchClosed, sch, schClosed, panicked, runVars, runWg,
                   swVars, prVars, htVars, agVars, envVars, fileVars, idVars, errVars>>

\* case <-ticker.C
HwTick ==
    /\ hworker = "post" /\ hwPc = "loop"
    /\ HwFlush(mvs, TRUE)
    /\ UNCHANGED <<hworker, hStarted, chanVars, runVars, runWg, swVars, prVars,
                   htVars, agVars, envVars, fileVars, idVars, errVars>>

\* postServiceMetricWorker: defer wg.Done(), and nothing else
SwRun ==
    /\ sworker = "post" /\ swPc = "loop"
    /\ swPc' = "exited"
    /\ UNCHANGED <<sworker, sStarted, chanVars, runVars, runWg, hwVars, prVars, htVars,
                   agVars, envVars, fileVars, idVars, errVars>>

\* dumpHostMetricWorker: for m := range ch
DumpHost ==
    /\ hworker = "dump" /\ hwPc = "loop"
    /\ hch # <<>> \/ hchClosed
    /\ IF hch # <<>>
       THEN hch' = Tail(hch) /\ UNCHANGED hwPc
       ELSE hwPc' = "exited" /\ UNCHANGED hch
    /\ UNCHANGED <<hworker, hStarted, mvs, hwPosted, hchClosed, sch, schClosed,
                   panicked, runVars, runWg, swVars, prVars, htVars, agVars, envVars, fileVars, idVars, errVars>>

\* dumpServiceMetricWorker: for m := range ch
DumpService ==
    /\ sworker = "dump" /\ swPc = "loop"
    /\ sch # <<>> \/ schClosed
    /\ IF sch # <<>>
       THEN sch' = Tail(sch) /\ UNCHANGED swPc
       ELSE swPc' = "exited" /\ UNCHANGED sch
    /\ UNCHANGED <<sworker, sStarted, hch, hchClosed, schClosed, panicked, runVars, runWg,
                   hwVars, prVars, htVars, agVars, envVars, fileVars, idVars, errVars>>

(***************************************************************************)
(* runAggregates, per aggregate definition j.                              *)
(***************************************************************************)
AbsentSample == [st |-> "absent", time |-> 0, value |-> 0]
NilSample == [st |-> "nil", time |-> 0, value |-> 0]
FloatSample(t, v) == [st |-> "float", time |-> t, value |-> v]
\* a sample whose value is not a float64 (a JSON null, a string)
OtherSample(t) == [st |-> "nonfloat", time |-> t, value |-> 0]

\* time.Now() at the aggregate run
Nows == {1700000000}

MetricNames(ag) == {ag.Metrics[k].Name : k \in DOMAIN ag.Metrics}

\* the answers of fetchLatestMetricValues in the orchestrator's specification
LatestMain(n, names, now) ==
    {[h \in 1..n |-> [nm \in names |-> FloatSample(now, 0)]],
     [h \in 1..n |-> [nm \in names |-> AbsentSample]]}

\* the samples a host can have for metric nm at time now, in the aggregate
\* runner's specification
Samples(nm, now) ==
    IF nm = "m"
    THEN {AbsentSample, NilSample, OtherSample(now),
          FloatSample(now + metricTimeMargin - 1, 5), FloatSample(now + metricTimeMargin, 7),
          FloatSample(now + metricTimeMargin + 1, -1), FloatSample(now, 2)}
    ELSE {AbsentSample, FloatSample(now - 60, -3)}

\* the answers of fetchLatestMetricValues in the aggregate runner's specification
LatestAll(n, names, now) ==
    {l \in [1..n -> [names -> UNION {Samples(nm, now) : nm \in names}]] :
        \A h \in 1..n, nm \in names : l[h][nm] \in Samples(nm, now)}

\* client.FindHosts: an error, or n hosts
AgFind(j) ==
    /\ agPc[j] = "find"
    /\ \E err \in BOOLEAN, n \in 0..world.hosts :
         /\ failed' = Noted(<<"aggregates", j, 0>>, err)
         /\ IF err \/ n = 0
            THEN /\ agPc' = [agPc EXCEPT ![j] = "none"]
                 /\ runWg' = runWg - 1
                 /\ UNCHANGED agIn
            ELSE /\ ~err
                 /\ agPc' = [agPc EXCEPT ![j] = "fetch"]
                 /\ agIn' = [agIn EXCEPT ![j] = [n |-> n]]
                 /\ UNCHANGED runWg
    /\ UNCHANGED <<agList, agIdx, runVars, chanVars, hwVars, swVars, prVars, htVars, envVars, fileVars, idVars>>

\* fetchLatestMetricValues (an error, or one of the maps of LatestAll when
\* `every`, of LatestMain otherwise), time.Now(), and the scan and the
\* reductions of every MetricConfig
AgFetch(j, every) ==
    /\ agPc[j] = "fetch"
    /\ \/ /\ agPc' = [agPc EXCEPT ![j] = "none"]
          /\ agIn' = [agIn EXCEPT ![j] = NoInput]
          /\ runWg' = runWg - 1
          /\ failed' = Noted(<<"fetch", j, 0>>, TRUE)
          /\ UNCHANGED <<agList, agIdx>>
       \/ \E now \in Nows :
          \E latest \in (IF every THEN LatestAll(agIn[j].n, MetricNames(conf.Aggregates[j]), now)
                                  ELSE LatestMain(agIn[j].n, MetricNames(conf.Aggregates[j]), now)) :
          \E order \in Perms(DOMAIN latest) :
            LET list == EmitAll(conf.Aggregates[j], latest, order, now)
            IN  /\ agList' = [agList EXCEPT ![j] = list]
                /\ agIdx' = [agIdx EXCEPT ![j] = 0]
                /\ agIn' = [agIn EXCEPT ![j] =
                              [n |-> agIn[j].n, latest |-> latest, order |-> order, now |-> now,
                               handed |-> Handed(conf.Aggregates[j], latest, order, now)]]
                /\ IF Len(list) = 0
                   THEN agPc' = [agPc EXCEPT ![j] = "none"] /\ runWg' = runWg - 1
                   ELSE agPc' = [agPc EXCEPT ![j] = "send"] /\ UNCHANGED runWg
                /\ UNCHANGED failed
    /\ UNCHANGED <<runVars, chanVars, hwVars, swVars, prVars, htVars, envVars, fileVars, idVars>>

\* ch <- ServiceMetric{...}; after the last one the deferred wg.Done()
AgSend(j) ==
    /\ agPc[j] = "send"
    /\ CanSend(sch, schClosed)
    /\ IF schClosed
       THEN panicked' = TRUE /\ UNCHANGED sch
       ELSE sch' = Append(sch, agList[j][agIdx[j] + 1]) /\ UNCHANGED panicked
    /\ agIdx' = [agIdx EXCEPT ![j] = @ + 1]
    /\ IF agIdx[j] + 1 = Len(agList[j])
       THEN agPc' = [agPc EXCEPT ![j] = "none"] /\ runWg' = runWg - 1
       ELSE UNCHANGED <<agPc, runWg>>
    /\ UNCHANGED <<agIn, agList, hch, hchClosed, schClosed, runVars, hwVars, swVars, prVars,
                   htVars, envVars, fileVars, idVars, errVars>>

(***************************************************************************)
(* The orchestrator's specification.                                       *)
(***************************************************************************)
Next ==
    \/ RunStart \/ RunSpawn \/ RunJoined \/ RunCancelled \/ RunTick \/ Cancel
    \/ \E i \in Defs : PrFind(i) \/ PrSpawn(i) \/ PrJoined(i)
    \/ \E i \in Defs, h \in Hosts : HtLock(i, h) \/ HtRun(i, h) \/ HtSend(i, h)
    \/ HtUnlock
    \/ HwRecv \/ HwTick \/ SwRun \/ DumpHost \/ DumpService
    \/ \E j \in Defs : AgFind(j) \/ AgFetch(j, FALSE) \/ AgSend(j)

Spec == Init /\ [][Next]_vars

(***************************************************************************)
(* The shipper's specification: one probe definition, every HostMetric     *)
(* numbered, from Run's start to its return.                               *)
(***************************************************************************)
InitShip ==
    /\ once \in BOOLEAN
    /\ \E w \in ShipWorlds : Start(w)

NextShip ==
    \/ RunStart \/ RunSpawn \/ RunJoined \/ RunCancelled \/ RunTick \/ Cancel
    \/ \E i \in Defs : PrFind(i) \/ PrSpawn(i) \/ PrJoined(i)
    \/ \E i \in Defs, h \in Hosts : HtLock(i, h) \/ HtRun(i, h) \/ HtSend(i, h)
    \/ HtUnlock
    \/ HwRecv \/ HwTick

SpecShip == InitShip /\ [][NextShip]_vars

(***************************************************************************)
(* The aggregate runner's specification: one iteration of Run (once mode)  *)
(* over configs that list aggregates only, with every answer the backend   *)
(* can give for the latest values.                                         *)
(***************************************************************************)
InitAgg ==
    /\ once = TRUE
    /\ \E w \in AggWorlds : Start(w)

NextAgg ==
    \/ RunStart \/ RunSpawn \/ RunJoined
    \/ SwRun \/ DumpService
    \/ \E j \in Defs : AgFind(j) \/ AgFetch(j, TRUE) \/ AgSend(j)

SpecAgg == InitAgg /\ [][NextAgg]_vars

(***************************************************************************)
(* The configuration loader's specification: Run's startup (LoadConfig)    *)
(* over files that set or leave out role, roles, post_probed_metrics,      *)
(* probe_only and the API key.                                             *)
(***************************************************************************)
LoadFiles ==
    {Yaml(key, <<PdFile(r, rs, <<"ping">>)>>, ppm, <<AgFile(ar, ars, <<McFile("m", <<OcFile("sum", "m_sum")>>)>>)>>,
          "absent", po) :
        key \in {"K", ""}, r \in {"", "EC2"}, rs \in {<<>>, <<"NLB">>, <<"EC2">>, <<"NLB", "web">>},
        ar \in {"", "web"}, ars \in {<<>>, <<"db">>},
        ppm \in {"absent", "true", "false"}, po \in {"absent", "true", "false"}}

\* the environments of the loader's specification
LoadWorlds == {[files |-> LoadFiles \cup {Garbage}, hosts |-> ReloadHosts, track |-> FALSE, errs |-> FALSE]}

InitLoad ==
    /\ once \in BOOLEAN
    /\ \E w \in LoadWorlds : Start(w)

NextLoad == RunStart

SpecLoad == InitLoad /\ [][NextLoad]_vars

(***************************************************************************)
(* The specification of errors within an iteration: two probe definitions  *)
(* and one aggregate definition, both channels dumped, every error of the  *)
(* iteration kept in `failed`.                                             *)
(***************************************************************************)
FileSib ==
    Yaml("K", <<PdFile("EC2", <<>>, <<"ping", "tcp">>), PdFile("", <<"NLB">>, <<"ping">>)>>, "false",
         <<AgFile("web", <<>>, <<McFile("m", <<OcFile("sum", "m_sum")>>)>>)>>,
         "false", "absent")

SibWorlds == {[files |-> {FileSib}, hosts |-> ReloadHosts, track |-> FALSE, errs |-> TRUE]}

InitSib ==
    /\ once \in BOOLEAN
    /\ \E w \in SibWorlds : Start(w)

NextSib ==
    \/ RunStart \/ RunSpawn \/ RunJoined \/ RunCancelled \/ RunTick \/ Cancel
    \/ \E i \in Defs : PrFind(i) \/ PrSpawn(i) \/ PrJoined(i)
    \/ \E i \in Defs, h \in Hosts : HtLock(i, h) \/ HtRun(i, h) \/ HtSend(i, h)
    \/ HtUnlock
    \/ DumpHost \/ DumpService
    \/ \E j \in Defs : AgFind(j) \/ AgFetch(j, FALSE) \/ AgSend(j)

SpecSib == InitSib /\ [][NextSib]_vars

(***************************************************************************)
(* Properties.                                                             *)
(***************************************************************************)
\* the host-tasks that hold a semaphore slot and are running their probes
Probing == {x \in Defs \X Hosts : htPc[x[1]][x[2]] \in {"run", "send"}}

\* the host-tasks waiting in lock()
Locking == {x \in Defs \X Hosts : htPc[x[1]][x[2]] = "lock"}

\* C1: the host-tasks that have acquired the semaphore and not released it are
\* never more than MaxConcurrency, over all probe definitions, and every
\* host-task that is running its probes (or is between its wg2.Done() and its
\* unlock()) is one of them: none probes without a slot.
C1_SemaphoreBound ==
    /\ sem <= MaxConcurrency
    /\ Cardinality(Probing) + unlocking = sem

\* C1 (witness): the semaphore is full with host-tasks of two different probe
\* definitions probing, and a third host-task waits in lock().
C1_Witness ==
    /\ sem = MaxConcurrency
    /\ \E x \in Probing, y \in Probing : x[1] # y[1]
    /\ Locking # {}

\* the numbered metrics postHostMetricWorker has received
Received == {id \in 1..(nextId - 1) : id \notin Range(hch)}

\* C2: postHostMetricWorker never discards a metric: while it runs, every metric
\* it has received is in its buffer or was part of a POST that succeeded, and
\* it does not exit with metrics in its buffer that were not posted.
C2_NoMetricDiscarded ==
    hworker = "post" =>
        /\ hwPc = "loop" => Received \subseteq (Range(mvs) \cup hwPosted)
        /\ hwPc = "exited" => Received \subseteq hwPosted

\* C3: a reload that loaded the bytes of the config in force did not swap the
\* config (and so did not log "config reloaded").
C3_ReloadIdempotent == lastReload.same => ~lastReload.swapped

\* C4: the upload shipper of the service channel is there to receive every
\* ServiceMetric placed on the channel: it has not stopped while a
\* ServiceMetric is on the channel.
C4_ServiceShipperDelivers ==
    (sworker = "post" /\ sch # <<>>) => swPc = "loop"

\* every probe runner, aggregate runner and host-task has passed its
\* wg.Done() / wg2.Done()
AllJoined ==
    /\ \A i \in Defs : prPc[i] = "none" /\ agPc[i] = "none"
    /\ \A i \in Defs, h \in Hosts : htPc[i][h] = "none"

Progress == <<Next>>_vars

\* C6: once cancelled, Run returns (or never started): the program is not
\* stopped for good with Run still short of its return.
C6_ReturnsAfterCancel ==
    cancelled => (runPc \in {"returned", "failed"} \/ ENABLED Progress)

\* aggregate runner j has fetched the latest values in this iteration
RunOf(j) == "latest" \in DOMAIN agIn[j]

\* the ServiceMetrics runner j has sent
Sent(j) == SubSeq(agList[j], 1, agIdx[j])

\* the hosts whose sample of metric name is present, non-null, float-valued
\* and less than 3 minutes (180 s) old
AcceptedHosts(j, name) ==
    {h \in DOMAIN agIn[j].latest :
        /\ agIn[j].latest[h][name].st = "float"
        /\ agIn[j].latest[h][name].time > agIn[j].now - 180}

Least(S) == CHOOSE x \in S : \A y \in S : x <= y
Greatest(S) == CHOOSE x \in S : \A y \in S : x >= y

\* the values handed to the reducers for MetricConfig k of runner j
HandedValues(j, k) == {agIn[j].handed[k][i].value : i \in DOMAIN agIn[j].handed[k]}

\* C7: the value sent for a min output is the smallest of the values handed to
\* the reducer, and the value sent for a max output is the largest.
C7_MinMaxExtremum ==
    \A j \in Defs : RunOf(j) =>
        \A k \in DOMAIN conf.Aggregates[j].Metrics :
        \A o \in DOMAIN conf.Aggregates[j].Metrics[k].Outputs :
        \A i \in 1..agIdx[j] :
            LET oc == conf.Aggregates[j].Metrics[k].Outputs[o]
                sm == agList[j][i]
            IN  sm.Name = oc.Name =>
                  /\ ToLower(oc.Func) = "min" => sm.Value = Float(Least(HandedValues(j, k)))
                  /\ ToLower(oc.Func) = "max" => sm.Value = Float(Greatest(HandedValues(j, k)))

IsPrefix(a, b) == Len(a) <= Len(b) /\ a = SubSeq(b, 1, Len(a))

\* the names a run has to send: for every MetricConfig with an accepted
\* sample, the names of its outputs, in order
ExpectedNames(j) ==
    Flatten([k \in DOMAIN conf.Aggregates[j].Metrics |->
        IF AcceptedHosts(j, conf.Aggregates[j].Metrics[k].Name) # {}
        THEN [o \in DOMAIN conf.Aggregates[j].Metrics[k].Outputs |->
                conf.Aggregates[j].Metrics[k].Outputs[o].Name]
        ELSE <<>>])

SentNames(j) == [i \in 1..agIdx[j] |-> agList[j][i].Name]

\* C8: an aggregate run sends, for every MetricConfig with an accepted sample,
\* one ServiceMetric per OutputConfig in output order, and nothing for a
\* MetricConfig without one: what it has sent is a prefix of that list, and the
\* whole list once the run has ended.
C8_OnePerOutput ==
    \A j \in Defs : RunOf(j) =>
        /\ IsPrefix(SentNames(j), ExpectedNames(j))
        /\ agPc[j] = "none" => SentNames(j) = ExpectedNames(j)

\* C8 (witness): a run has ended that had an accepted sample for one of its two
\* MetricConfigs and none for the other, and sent the four outputs of the first.
C8_Witness ==
    \E j \in Defs :
        /\ RunOf(j) /\ agPc[j] = "none"
        /\ Len(conf.Aggregates[j].Metrics) = 2
        /\ AcceptedHosts(j, "m") # {} /\ AcceptedHosts(j, "n") = {}
        /\ agIdx[j] = 4

\* C9: every ServiceMetric sent carries the largest sample time among the
\* accepted samples of its MetricConfig.
C9_TimestampIsMaxAccepted ==
    \A j \in Defs : RunOf(j) =>
        \A k \in DOMAIN conf.Aggregates[j].Metrics :
        \A o \in DOMAIN conf.Aggregates[j].Metrics[k].Outputs :
        \A i \in 1..agIdx[j] :
            LET mc == conf.Aggregates[j].Metrics[k]
                sm == agList[j][i]
            IN  sm.Name = mc.Outputs[o].Name =>
                  sm.Timestamp =
                    Greatest({agIn[j].latest[h][mc.Name].time : h \in AcceptedHosts(j, mc.Name)})

\* C9 (witness): a ServiceMetric was sent for metric m whose two accepted
\* samples have different times, the newer one being scanned first.
C9_Witness ==
    \E j \in Defs :
        /\ RunOf(j) /\ agIdx[j] > 0
        /\ Len(agIn[j].order) = 2
        /\ AcceptedHosts(j, "m") = DOMAIN agIn[j].latest
        /\ agIn[j].latest[agIn[j].order[1]]["m"].time > agIn[j].latest[agIn[j].order[2]]["m"].time

\* C10: no sample whose time is at or before now minus 3 minutes is among the
\* samples whose values are handed to a reducer: every one of them is strictly
\* newer than now + metricTimeMargin.
C10_FreshnessGate ==
    \A j \in Defs : RunOf(j) =>
        \A k \in DOMAIN agIn[j].handed :
        \A i \in DOMAIN agIn[j].handed[k] :
            /\ ~(agIn[j].handed[k][i].time <= agIn[j].now - 180)
            /\ agIn[j].handed[k][i].time > agIn[j].now + metricTimeMargin

\* C10 (witness): a run that sent a ServiceMetric had a float sample exactly
\* 3 minutes old, which was not handed to the reducers, and a newer one.
C10_Witness ==
    \E j \in Defs :
        /\ RunOf(j) /\ agIdx[j] > 0
        /\ \E h \in DOMAIN agIn[j].latest :
             /\ agIn[j].latest[h]["m"].st = "float"
             /\ agIn[j].latest[h]["m"].time = agIn[j].now - 180
        /\ Len(agIn[j].handed[1]) = 1

\* Run holds a config that LoadConfig returned without error for confBytes
Loaded == runPc \notin {"start", "failed"}

\* the roles a definition of the file asks for: its list and its legacy role
FileRoles(d) == Range(d.roles) \cup (IF d.role # "" THEN {d.role} ELSE {})

\* C11: after LoadConfig the roles of every probe definition and every
\* aggregate definition are the union of the roles the file lists and the
\* legacy role; the role is among them exactly if it was set, and every listed
\* role is still there.
C11_RolesUnion ==
    Loaded =>
        /\ \A i \in DOMAIN conf.Probes :
             LET d == confBytes.probes[i]
                 roles == Range(conf.Probes[i].Roles)
             IN  /\ roles = FileRoles(d)
                 /\ (d.role \in roles) <=> (d.role # "")
                 /\ Range(d.roles) \subseteq roles
        /\ \A i \in DOMAIN conf.Aggregates :
             LET d == confBytes.aggregates[i]
                 roles == Range(conf.Aggregates[i].Roles)
             IN  /\ roles = FileRoles(d)
                 /\ (d.role \in roles) <=> (d.role # "")
                 /\ Range(d.roles) \subseteq roles

\* C11 (witness): a config was loaded from a file whose probe definition sets
\* a role and lists two other roles, and whose aggregate definition sets no
\* role and lists one.
C11_Witness ==
    /\ Loaded
    /\ confBytes.probes[1].role = "EC2" /\ confBytes.probes[1].roles = <<"NLB", "web">>
    /\ Len(conf.Probes[1].Roles) = 3
    /\ confBytes.aggregates[1].role = "" /\ Len(conf.Aggregates[1].Roles) = 1

\* C12: after validation, with probe_only in the file PostProbedMetrics is
\* the negation of probe_only whatever post_probed_metrics says; without it
\* PostProbedMetrics is the file's post_probed_metrics, or true by default.
C12_ProbeOnly ==
    Loaded =>
        conf.PostProbedMetrics =
            (CASE confBytes.probe_only = "true" -> FALSE
               [] confBytes.probe_only = "false" -> TRUE
               [] confBytes.post_probed_metrics = "false" -> FALSE
               [] OTHER -> TRUE)

\* C12 (witness): a config was loaded from a file that sets both probe_only
\* and post_probed_metrics to true.
C12_Witness ==
    /\ Loaded
    /\ confBytes.probe_only = "true" /\ confBytes.post_probed_metrics = "true"
    /\ ~conf.PostProbedMetrics

\* C13: postHostMetricWorker's buffer never holds more than
\* PostMetricBufferLength metrics (so no POST carries more, and the retry of a
\* failed POST carries the failed batch and nothing else).
C13_BufferBounded ==
    hworker = "post" => Len(mvs) <= PostMetricBufferLength

\* C14: a reload attempt that fails (fetch, parse or validation error) leaves
\* Run's config as it was, and Run goes on to the next iteration with it.
C14_FailedReloadKeepsConfig ==
    [][(runPc = "select" /\ lastReload'.failed)
         => (conf' = conf /\ confBytes' = confBytes /\ runPc' = "loop")]_vars

\* C14 (witness): Run is about to start the runners of its next iteration
\* after a reload attempt failed on a changed file, with the probe
\* definitions of the config it loaded at startup.
C14_Witness ==
    /\ runPc = "loop" /\ lastReload.failed
    /\ file # confBytes
    /\ conf.Probes # <<>>

\* the func names the aggregate runner knows, in lower case
Recognized == {"sum", "min", "max", "avg", "average", "count"}

\* the names of the outputs of mc whose func is recognized, in order
RecognizedNames(mc) ==
    LET sel == SelectSeq(mc.Outputs, LAMBDA oc : ToLower(oc.Func) \in Recognized)
    IN  [i \in DOMAIN sel |-> sel[i].Name]

\* C15: the aggregate runner sends no ServiceMetric for an OutputConfig whose
\* func is not a recognized name, and sends those of the recognized outputs
\* of the same MetricConfig: what it has sent is a prefix of the names of the
\* recognized outputs of the MetricConfigs with an accepted sample.
C15_UnknownFuncSkipped ==
    \A j \in Defs : RunOf(j) =>
        IsPrefix(SentNames(j),
            Flatten([k \in DOMAIN conf.Aggregates[j].Metrics |->
                IF AcceptedHosts(j, conf.Aggregates[j].Metrics[k].Name) # {}
                THEN RecognizedNames(conf.Aggregates[j].Metrics[k])
                ELSE <<>>]))

\* C16: once cancellation is signalled no host-task starts a probe and no
\* probe runner launches the host-task of a further host.
C16_NoProbeAfterCancel ==
    [][cancelled =>
         /\ ~(\E i \in Defs, h \in Hosts : HtRun(i, h))
         /\ ~(\E i \in Defs : PrSpawn(i))]_vars

\* the runners that have not passed their wg.Done()
ActiveRunners ==
    Cardinality({i \in Defs : prPc[i] # "none"}) + Cardinality({j \in Defs : agPc[j] # "none"})

\* every host-task but that of host h of probe definition i is left alone
OtherTasksKept(i, h) ==
    \A k \in Defs, g \in Hosts : <<k, g>> # <<i, h>> =>
        /\ htPc'[k][g] = htPc[k][g]
        /\ htProbes'[k][g] = htProbes[k][g]
        /\ htPending'[k][g] = htPending[k][g]

\* what the step in which unit u returns an error does and leaves alone
ErrorStaysLocal(u) ==
    /\ runPc' = runPc /\ conf' = conf
    /\ u[1] = "probes" =>
         /\ prPc'[u[2]] = "none"
         /\ \A k \in Defs : k # u[2] => prPc'[k] = prPc[k]
         /\ agPc' = agPc /\ OtherTasksKept(0, 0)
    /\ u[1] \in {"aggregates", "fetch"} =>
         /\ agPc'[u[2]] = "none"
         /\ \A k \in Defs : k # u[2] => agPc'[k] = agPc[k]
         /\ prPc' = prPc /\ OtherTasksKept(0, 0)
    /\ u[1] = "probe" =>
         /\ htProbes'[u[2]][u[3]] = htProbes[u[2]][u[3]] - 1
         /\ htPending'[u[2]][u[3]] > 0 => htPc'[u[2]][u[3]] = "send"
         /\ (htPending'[u[2]][u[3]] = 0 /\ htProbes'[u[2]][u[3]] > 0) => htPc'[u[2]][u[3]] = "run"
         /\ prPc' = prPc /\ agPc' = agPc /\ OtherTasksKept(u[2], u[3])

\* C17: an error in one unit of work of an iteration ends that unit alone: a
\* runner whose discovery or fetch fails returns and no other runner or
\* host-task is touched; a probe that fails has its metrics sent and the
\* remaining probes of its host-task still run; every runner, failed or not,
\* is counted off Run's wait exactly once, so Run goes on when all are done.
C17_ErrorsStayLocal ==
    /\ [](runPc = "wait" => runWg = ActiveRunners)
    /\ [](\A i \in Defs, h \in Hosts :
            htPc[i][h] = "none" => (htPending[i][h] = 0 /\ htProbes[i][h] = 0))
    /\ [][\A u \in failed' \ failed : ErrorStaysLocal(u)]_vars

\* C17 (witness): in one iteration the discovery of probe definition 2 has
\* failed while the host-task of definition 1 is sending the metrics of a
\* probe that failed, with a probe left to run, and the aggregate runner is
\* still at work.
C17_Witness ==
    /\ <<"probes", 2, 0>> \in failed /\ <<"probe", 1, 1>> \in failed
    /\ htPc[1][1] = "send" /\ htProbes[1][1] > 0
    /\ agPc[1] # "none"

\* Run is past the wg2.Wait() of its last iteration
WaitReturned == runPc \in {"select", "loop", "returned"}

\* C18: the slots held are those of the host-tasks that have locked and not
\* ended, each released once when its task ends; and whenever Run's wait for
\* the runners of an iteration has returned no slot is held.
C18_NoSlotHeldAfterWait ==
    /\ sem = Cardinality(Probing) + unlocking
    /\ WaitReturned => sem = 0

\* Run is between two iterations: before the first, or past wg2.Wait() and
\* not yet past the spawning of the next runners
BetweenTicks == runPc \in {"start", "failed", "select", "loop"}

\* the runners and host-tasks at work belong to definitions of conf
OfConf ==
    /\ \A i \in Defs : prPc[i] # "none" => i \in DOMAIN conf.Probes
    /\ \A i \in Defs, h \in Hosts : htPc[i][h] # "none" => i \in DOMAIN conf.Probes
    /\ \A j \in Defs : agPc[j] # "none" => j \in DOMAIN conf.Aggregates

C20_WorkersFixedAtStartup ==
    [][/\ (runPc = "start" /\ runPc' = "loop") =>
            /\ hworker' = WorkerMode(Len(conf'.Probes), conf'.PostProbedMetrics)
            /\ sworker' = WorkerMode(Len(conf'.Aggregates), conf'.PostAggregatedMetrics)
       /\ runPc # "start" =>
            /\ hworker' = hworker /\ sworker' = sworker
            /\ hStarted' = hStarted /\ sStarted' = sStarted
       /\ (runPc = "select" /\ runPc' = "loop") => (hwPc' = hwPc /\ swPc' = swPc)]_vars

\* C20 (witness): a reload has swapped in a config with aggregates and
\* without probes, and the workers are still those of the startup config:
\* an upload shipper on the host channel, none on the service channel.
C20_Witness ==
    /\ lastReload.swapped
    /\ conf.Probes = <<>> /\ conf.Aggregates # <<>> /\ ~conf.PostAggregatedMetrics
    /\ hworker = "post" /\ sworker = "none"

====
